---- MODULE Spec2Model ----
(***************************************************************************)
(* Model of the ChiselStore RPC module (src/src/rpc.rs): the wire codec,   *)
(* the per-address connection pools and their directory, the outbound      *)
(* transport (send_sp / send_ble) and the inbound service handlers.        *)
(***************************************************************************)
EXTENDS Integers, Sequences, FiniteSets, Bags, TLC

VARIABLES
    callerPc,    \* position of the Engine thread: "idle" or inside a send ("in_send")
    calls,       \* number of send_sp / send_ble calls the Engine has made
    spawned,     \* number of background tasks tokio::task::spawn has created
    tasks,       \* bag of the live background tasks (a finished task is gone)
    lock,        \* TRUE while the directory mutex (Connections.0) is held
    directory,   \* HashMap address -> idle queue of that address's ConnectionPool
    opened,      \* connections opened by RpcClient::connect so far
    leases,      \* Connection values constructed by Connections::connection so far
    engine,      \* per node: the sequence of envelopes delivered to its Engine
    inbox,       \* the inbound calls made on the local service, with their outcome
    process      \* "running", or "aborted" once a panic has taken the process down

vars == <<callerPc, calls, spawned, tasks, lock, directory, opened, leases,
          engine, inbox, process>>

-----------------------------------------------------------------------------
(* Bounds of the model *)

MaxSends == 2
MaxPoolSends == 20
MaxInbound == 2
MaxCodecCalls == 2

(* Program constants *)

IdleCapacity == 16
U8Range == 256

-----------------------------------------------------------------------------
(* Option<T>: Some(x) is <<x>>, None is <<>>; unwrap of None panics, which   *)
(* every user below tests with IsNone before it unwraps.                    *)

Some(x) == <<x>>
None == <<>>
IsNone(o) == Len(o) = 0
unwrap(o) == o[1]

-----------------------------------------------------------------------------
(* Wire codec *)

ballot_from_proto(b) ==
    [n |-> b.n, priority |-> b.priority, pid |-> b.pid]

store_command_from_proto(sc) ==
    [id |-> sc.id, sql |-> sc.sql]

as_u8(md) == md % U8Range

stopsign_from_proto(ss) ==
    [config_id |-> ss.config_id,
     nodes     |-> ss.nodes,
     metadata  |-> Some([i \in 1..Len(ss.metadata) |-> as_u8(ss.metadata[i])])]

sync_item_panics(si) == IsNone(si.item)

sync_item_from_proto(si) ==
    LET item == unwrap(si.item) IN
    CASE item.tag = "Entries" ->
            [tag |-> "Entries",
             entries |-> [i \in 1..Len(item.store_commands) |-> store_command_from_proto(item.store_commands[i])]]
      [] item.tag = "Snapshot" -> [tag |-> "Snapshot", snapshot |-> "Delta"]
      [] item.tag = "None" -> [tag |-> "None"]

proto_from_ballot(b) ==
    [n |-> b.n, priority |-> b.priority, pid |-> b.pid]

(* The sender's side of stopsign_from_proto. The transport has no encoder   *)
(* for it; the metadata bytes travel as the repeated integer field that     *)
(* stopsign_from_proto reads, and a repeated field has no absent value.     *)
proto_from_stopsign(ss) ==
    [config_id |-> ss.config_id,
     nodes     |-> ss.nodes,
     metadata  |-> IF IsNone(ss.metadata) THEN <<>> ELSE unwrap(ss.metadata)]

(* The sender's side of sync_item_from_proto: a tagged union, the Snapshot  *)
(* tag carrying the snapshot marker.                                        *)
proto_from_sync_item(si) ==
    CASE si.tag = "Entries" ->
            [item |-> Some([tag |-> "Entries", store_commands |-> si.entries])]
      [] si.tag = "Snapshot" ->
            [item |-> Some([tag |-> "Snapshot", snapshot |-> si.snapshot])]
      [] si.tag = "None" -> [item |-> Some([tag |-> "None"])]

compaction_from_proto(c) ==
    CASE c.tag = "Trim" -> [tag |-> "Trim", trim |-> c.trim]
      [] c.tag = "Snapshot" -> [tag |-> "Snapshot", ss |-> c.ss]

-----------------------------------------------------------------------------
(* Outcome of one inbound handler: the envelope it hands to the Engine (at  *)
(* most one, on the consensus or on the election entry point) and how the   *)
(* call ends: "ok" (Response Void), or "panic" when an unwrap met None.     *)

Panicked == [status |-> "panic", entry |-> "none", deliver |-> <<>>]

recv_sp_msg(msg) == [status |-> "ok", entry |-> "sp", deliver |-> <<msg>>]

recv_ble_msg(msg) == [status |-> "ok", entry |-> "ble", deliver |-> <<msg>>]

Message(from, to, msg) == [from |-> from, to |-> to, msg |-> msg]

OptStopSign(o) == IF IsNone(o) THEN None ELSE Some(stopsign_from_proto(unwrap(o)))

prepare_lenient(request) ==
    LET msg == request
        zero == [n |-> 0, priority |-> 0, pid |-> 0]
        n == IF IsNone(msg.n) THEN zero ELSE unwrap(msg.n)
        n_accepted == IF IsNone(msg.n_accepted) THEN zero ELSE unwrap(msg.n_accepted)
    IN  recv_sp_msg(Message(msg.from, msg.to,
            [kind |-> "Prepare", n |-> ballot_from_proto(n), ld |-> msg.ld,
             n_accepted |-> ballot_from_proto(n_accepted), la |-> msg.la]))

prepare(request) ==
    LET msg == request IN
    IF IsNone(msg.n) \/ IsNone(msg.n_accepted) THEN Panicked
    ELSE recv_sp_msg(Message(msg.from, msg.to,
            [kind |-> "Prepare",
             n |-> ballot_from_proto(unwrap(msg.n)),
             ld |-> msg.ld,
             n_accepted |-> ballot_from_proto(unwrap(msg.n_accepted)),
             la |-> msg.la]))

promise(request) ==
    LET msg == request IN
    IF IsNone(msg.n) \/ IsNone(msg.n_accepted) THEN Panicked
    ELSE IF ~IsNone(msg.sync_item) /\ sync_item_panics(unwrap(msg.sync_item))
    THEN Panicked
    ELSE recv_sp_msg(Message(msg.from, msg.to,
            [kind |-> "Promise",
             n |-> ballot_from_proto(unwrap(msg.n)),
             n_accepted |-> ballot_from_proto(unwrap(msg.n_accepted)),
             sync_item |-> IF IsNone(msg.sync_item) THEN None
                           ELSE Some(sync_item_from_proto(unwrap(msg.sync_item))),
             ld |-> msg.ld,
             la |-> msg.la,
             stopsign |-> OptStopSign(msg.stop_sign)]))

accept_sync(request) ==
    LET msg == request IN
    IF IsNone(msg.n) \/ IsNone(msg.sync_item) THEN Panicked
    ELSE IF sync_item_panics(unwrap(msg.sync_item)) THEN Panicked
    ELSE recv_sp_msg(Message(msg.from, msg.to,
            [kind |-> "AcceptSync",
             n |-> ballot_from_proto(unwrap(msg.n)),
             sync_item |-> sync_item_from_proto(unwrap(msg.sync_item)),
             sync_idx |-> msg.sync_idx,
             decide_idx |-> msg.decide_idx,
             stopsign |-> OptStopSign(msg.stop_sign)]))

first_accept(request) ==
    LET msg == request IN
    IF IsNone(msg.n) THEN Panicked
    ELSE recv_sp_msg(Message(msg.from, msg.to,
            [kind |-> "FirstAccept",
             n |-> ballot_from_proto(unwrap(msg.n)),
             entries |-> [i \in 1..Len(msg.entries) |-> store_command_from_proto(msg.entries[i])]]))

accept_decide(request) ==
    LET msg == request IN
    IF IsNone(msg.n) THEN Panicked
    ELSE recv_sp_msg(Message(msg.from, msg.to,
            [kind |-> "AcceptDecide",
             n |-> ballot_from_proto(unwrap(msg.n)),
             ld |-> msg.ld,
             entries |-> [i \in 1..Len(msg.entries) |-> store_command_from_proto(msg.entries[i])]]))

accepted(request) ==
    LET msg == request IN
    IF IsNone(msg.n) THEN Panicked
    ELSE recv_sp_msg(Message(msg.from, msg.to,
            [kind |-> "Accepted",
             n |-> ballot_from_proto(unwrap(msg.n)),
             la |-> msg.la]))

decide(request) ==
    LET msg == request IN
    IF IsNone(msg.n) THEN Panicked
    ELSE recv_sp_msg(Message(msg.from, msg.to,
            [kind |-> "Decide",
             n |-> ballot_from_proto(unwrap(msg.n)),
             ld |-> msg.ld]))

proposal_forward(request) ==
    LET msg == request IN
    recv_sp_msg(Message(msg.from, msg.to,
            [kind |-> "ProposalForward",
             entries |-> [i \in 1..Len(msg.entries) |-> store_command_from_proto(msg.entries[i])]]))

compaction(request) ==
    LET msg == request IN
    IF IsNone(msg.compaction) THEN Panicked
    ELSE recv_sp_msg(Message(msg.from, msg.to,
            [kind |-> "Compaction",
             compaction |-> compaction_from_proto(unwrap(msg.compaction))]))

forward_compaction_as_compaction(request) ==
    LET msg == request IN
    IF IsNone(msg.compaction) THEN Panicked
    ELSE recv_sp_msg(Message(msg.from, msg.to,
            [kind |-> "Compaction",
             compaction |-> compaction_from_proto(unwrap(msg.compaction))]))

forward_compaction(request) ==
    LET msg == request IN
    IF IsNone(msg.compaction) THEN Panicked
    ELSE recv_sp_msg(Message(msg.from, msg.to,
            [kind |-> "ForwardCompaction",
             compaction |-> compaction_from_proto(unwrap(msg.compaction))]))

accept_stop_sign(request) ==
    LET msg == request IN
    IF IsNone(msg.n) \/ IsNone(msg.ss) THEN Panicked
    ELSE recv_sp_msg(Message(msg.from, msg.to,
            [kind |-> "AcceptStopSign",
             n |-> ballot_from_proto(unwrap(msg.n)),
             ss |-> stopsign_from_proto(unwrap(msg.ss))]))

accepted_stop_sign(request) ==
    LET msg == request IN
    IF IsNone(msg.n) THEN Panicked
    ELSE recv_sp_msg(Message(msg.from, msg.to,
            [kind |-> "AcceptedStopSign",
             n |-> ballot_from_proto(unwrap(msg.n))]))

decide_stop_sign(request) ==
    LET msg == request IN
    IF IsNone(msg.n) THEN Panicked
    ELSE recv_sp_msg(Message(msg.from, msg.to,
            [kind |-> "DecideStopSign",
             n |-> ballot_from_proto(unwrap(msg.n))]))

heartbeat_request(request) ==
    LET msg == request IN
    recv_ble_msg(Message(msg.from, msg.to,
            [kind |-> "HeartbeatRequest", round |-> msg.round]))

heartbeat_reply(request) ==
    LET msg == request IN
    IF IsNone(msg.ballot) THEN Panicked
    ELSE recv_ble_msg(Message(msg.from, msg.to,
            [kind |-> "HeartbeatReply",
             round |-> msg.round,
             ballot |-> ballot_from_proto(unwrap(msg.ballot)),
             majority_connected |-> msg.majority_connected]))

(* The generated Rpc server routes a call to the handler of its operation. *)
execute_swallow(query, answer) ==
    [status |-> "ok",
     rows |-> IF answer.tag = "Err" THEN <<>>
              ELSE [i \in 1..Len(answer.rows) |-> [values |-> answer.rows[i].values]],
     deliver |-> <<>>,
     queried |-> <<query.sql>>]

(* RpcService::execute: one server.query(query.sql), whose answer is the    *)
(* given one; an Err becomes Status::internal, an Ok is copied row by row   *)
(* into QueryResults. Nothing goes to the receive paths of the Engine.      *)
execute(query, answer) ==
    IF answer.tag = "Err"
    THEN [status |-> "internal", rows |-> <<>>, deliver |-> <<>>,
          queried |-> <<query.sql>>]
    ELSE [status |-> "ok",
          rows |-> [i \in 1..Len(answer.rows) |-> [values |-> answer.rows[i].values]],
          deliver |-> <<>>,
          queried |-> <<query.sql>>]

Rpc(op, request) ==
    CASE op = "prepare" -> prepare(request)
      [] op = "promise" -> promise(request)
      [] op = "accept_sync" -> accept_sync(request)
      [] op = "first_accept" -> first_accept(request)
      [] op = "accept_decide" -> accept_decide(request)
      [] op = "accepted" -> accepted(request)
      [] op = "decide" -> decide(request)
      [] op = "proposal_forward" -> proposal_forward(request)
      [] op = "compaction" -> compaction(request)
      [] op = "forward_compaction" -> forward_compaction(request)
      [] op = "accept_stop_sign" -> accept_stop_sign(request)
      [] op = "accepted_stop_sign" -> accepted_stop_sign(request)
      [] op = "decide_stop_sign" -> decide_stop_sign(request)
      [] op = "heartbeat_request" -> heartbeat_request(request)
      [] op = "heartbeat_reply" -> heartbeat_reply(request)

-----------------------------------------------------------------------------
(* The cluster: the local process (Self) and its peers, with the address   *)
(* function handed to RpcTransport::new.                                     *)

Self == 0
Nodes == {1, 2}
EngineNodes == Nodes \cup {Self}

node_addr(id) == IF id = 1 THEN "addr1" ELSE "addr2"

Addrs == {node_addr(id) : id \in Nodes}

ListenerAt(addr) == CHOOSE id \in Nodes : node_addr(id) = addr

-----------------------------------------------------------------------------
(* Engine messages handed to the transport *)

Ballot(n, priority, pid) == [n |-> n, priority |-> priority, pid |-> pid]

Prepare(n, ld, n_accepted, la) ==
    [kind |-> "Prepare", n |-> n, ld |-> ld, n_accepted |-> n_accepted, la |-> la]

PrepareMessages ==
    { Message(1, 2, Prepare(Ballot(2, 0, 1), 5, Ballot(1, 0, 1), 5)),
      Message(2, 1, Prepare(Ballot(0, 0, 0), 0, Ballot(0, 0, 0), 7)),
      Message(1, 1, Prepare(Ballot(1, 2, 3), 3, Ballot(3, 2, 1), 4)) }

OtherKinds ==
    {"Promise", "AcceptSync", "FirstAccept", "AcceptDecide", "Accepted", "Decide",
     "ProposalForward", "Compaction", "ForwardCompaction", "AcceptStopSign",
     "AcceptedStopSign", "DecideStopSign"}

OtherMessages == { Message(1, 2, [kind |-> k]) : k \in OtherKinds }

SpMessages == PrepareMessages \cup OtherMessages

BleMessages ==
    { Message(1, 2, [kind |-> "HeartbeatRequest", round |-> 1]),
      Message(2, 1, [kind |-> "HeartbeatReply", round |-> 1,
                     ballot |-> Ballot(1, 0, 2), majority_connected |-> TRUE]) }

-----------------------------------------------------------------------------
(* Outbound transport *)

PrepareReq_swapped(msg) ==
    [from |-> msg.from,
     to |-> msg.to,
     n |-> Some(proto_from_ballot(msg.msg.n)),
     ld |-> msg.msg.la,
     n_accepted |-> Some(proto_from_ballot(msg.msg.n_accepted)),
     la |-> msg.msg.ld]

PrepareReq(msg) ==
    [from |-> msg.from,
     to |-> msg.to,
     n |-> Some(proto_from_ballot(msg.msg.n)),
     ld |-> msg.msg.ld,
     n_accepted |-> Some(proto_from_ballot(msg.msg.n_accepted)),
     la |-> msg.msg.la]

Task_by_envelope(to_id, op, req, msg) ==
    [pc |-> "spawned", peer |-> node_addr(msg.to), op |-> op, req |-> req,
     conn |-> None, msg |-> msg, to_id |-> to_id]

(* A task as tokio::task::spawn creates it: it owns the request, the peer   *)
(* address and a clone of the directory, and has not run yet. msg and to_id *)
(* are history: the Engine message the request was encoded from and the     *)
(* node id the send was made for.                                           *)
Task(to_id, op, req, msg) ==
    [pc |-> "spawned", peer |-> node_addr(to_id), op |-> op, req |-> req,
     conn |-> None, msg |-> msg, to_id |-> to_id]

(* The tasks one send_sp call spawns. *)
send_sp(to_id, msg) ==
    IF msg.msg.kind = "Prepare"
    THEN SetToBag({Task(to_id, "prepare", PrepareReq(msg), msg)})
    ELSE EmptyBag

(* The tasks one send_ble call spawns. *)
send_ble(to_id, msg) == EmptyBag

SendSp(ids, msgs, max) ==
    /\ callerPc = "idle"
    /\ process = "running"
    /\ calls < max
    /\ \E to_id \in ids, msg \in msgs :
          /\ tasks' = tasks (+) send_sp(to_id, msg)
          /\ spawned' = spawned + BagCardinality(send_sp(to_id, msg))
    /\ calls' = calls + 1
    /\ callerPc' = "in_send"
    /\ UNCHANGED <<lock, directory, opened, leases, engine, inbox, process>>

SendBle(ids, msgs, max) ==
    /\ callerPc = "idle"
    /\ process = "running"
    /\ calls < max
    /\ \E to_id \in ids, msg \in msgs :
          /\ tasks' = tasks (+) send_ble(to_id, msg)
          /\ spawned' = spawned + BagCardinality(send_ble(to_id, msg))
    /\ calls' = calls + 1
    /\ callerPc' = "in_send"
    /\ UNCHANGED <<lock, directory, opened, leases, engine, inbox, process>>

SendCanReturn_joined == tasks = EmptyBag

(* What the end of send_sp / send_ble waits for: nothing. *)
SendCanReturn == TRUE

SendReturns ==
    /\ callerPc = "in_send"
    /\ process = "running"
    /\ SendCanReturn
    /\ callerPc' = "idle"
    /\ UNCHANGED <<calls, spawned, tasks, lock, directory, opened, leases,
                   engine, inbox, process>>

-----------------------------------------------------------------------------
(* Connection pool and directory *)

ConnectionPool_new == <<>>

replenish_unbounded(connections, conn) == Append(connections, conn)

replenish_never(connections, conn) == connections

(* ArrayQueue::push on a queue of capacity 16: a full queue refuses the     *)
(* element, and replenish ignores the refusal.                              *)
replenish(connections, conn) ==
    IF Len(connections) < IdleCapacity THEN Append(connections, conn)
    ELSE connections

or_insert_with_replace(conns, addr) ==
    [a \in DOMAIN conns \cup {addr} |->
        IF a = addr THEN ConnectionPool_new ELSE conns[a]]

(* HashMap::entry(addr).or_insert_with(ConnectionPool::new) *)
or_insert_with(conns, addr) ==
    IF addr \in DOMAIN conns THEN conns ELSE conns @@ (addr :> ConnectionPool_new)

(* The client RpcClient::connect(addr) yields; tagged handles carry the     *)
(* serial number of the connection, untagged ones are told apart only by    *)
(* their address.                                                           *)
RpcClient_connect(addr, tagged) ==
    [addr |-> addr, id |-> IF tagged THEN opened[addr] + 1 ELSE 0]

Connection(conn, pool) == [conn |-> conn, pool |-> pool]

(* Drop for Connection: the handle goes back to the pool it was leased from. *)
Connection_drop(conns, c) ==
    [conns EXCEPT ![c.pool] = replenish(@, c.conn)]

SpawnedTaskPanics_abort(p) == "aborted"

(* A panic inside a spawned task unwinds that task only: the runtime        *)
(* catches it at the task boundary and the process keeps running.           *)
SpawnedTaskPanics(p) == p

(* A panic inside an inbound handler unwinds the task serving that call.    *)
HandlerPanics(p) == p

Replace(t, u) == (tasks (-) SetToBag({t})) (+) SetToBag({u})

Remove(t) == tasks (-) SetToBag({t})

(* Connections::connection up to the lookup: self.0.lock().await, then      *)
(* entry(addr).or_insert_with(ConnectionPool::new).                         *)
LockDirectory ==
    /\ process = "running"
    /\ ~lock
    /\ \E t \in BagToSet(tasks) :
          /\ t.pc = "spawned"
          /\ directory' = or_insert_with(directory, t.peer)
          /\ tasks' = Replace(t, [t EXCEPT !.pc = "locked"])
    /\ lock' = TRUE
    /\ UNCHANGED <<callerPc, calls, spawned, opened, leases, engine, inbox, process>>

PoolConnection_peek ==
    /\ process = "running"
    /\ \E t \in BagToSet(tasks) :
          /\ t.pc = "locked"
          /\ IF directory[t.peer] /= <<>>
             THEN /\ tasks' = Replace(t, [t EXCEPT !.pc = "calling",
                        !.conn = Some(Connection(Head(directory[t.peer]), t.peer))])
                  /\ directory' = directory
                  /\ leases' = [leases EXCEPT ![t.peer] = @ + 1]
                  /\ lock' = FALSE
             ELSE /\ tasks' = Replace(t, [t EXCEPT !.pc = "connecting"])
                  /\ UNCHANGED <<directory, leases, lock>>
    /\ UNCHANGED <<callerPc, calls, spawned, opened, engine, inbox, process>>

PoolConnection_bounded ==
    /\ process = "running"
    /\ \E t \in BagToSet(tasks) :
          /\ t.pc = "locked"
          /\ LET held == {u \in BagToSet(tasks) : u.pc = "calling" /\ u.peer = t.peer}
             IN  BagCardinality([u \in held |-> CopiesIn(u, tasks)]) < IdleCapacity
          /\ IF directory[t.peer] /= <<>>
             THEN /\ tasks' = Replace(t, [t EXCEPT !.pc = "calling",
                        !.conn = Some(Connection(Head(directory[t.peer]), t.peer))])
                  /\ directory' = [directory EXCEPT ![t.peer] = Tail(@)]
                  /\ leases' = [leases EXCEPT ![t.peer] = @ + 1]
                  /\ lock' = FALSE
             ELSE /\ tasks' = Replace(t, [t EXCEPT !.pc = "connecting"])
                  /\ UNCHANGED <<directory, leases, lock>>
    /\ UNCHANGED <<callerPc, calls, spawned, opened, engine, inbox, process>>

(* ConnectionPool::connection: pop an idle handle, which ends              *)
(* Connections::connection and drops the guard, or start to connect with   *)
(* the guard still alive.                                                   *)
PoolConnection ==
    /\ process = "running"
    /\ \E t \in BagToSet(tasks) :
          /\ t.pc = "locked"
          /\ IF directory[t.peer] /= <<>>
             THEN /\ tasks' = Replace(t, [t EXCEPT !.pc = "calling",
                        !.conn = Some(Connection(Head(directory[t.peer]), t.peer))])
                  /\ directory' = [directory EXCEPT ![t.peer] = Tail(@)]
                  /\ leases' = [leases EXCEPT ![t.peer] = @ + 1]
                  /\ lock' = FALSE
             ELSE /\ tasks' = Replace(t, [t EXCEPT !.pc = "connecting"])
                  /\ UNCHANGED <<directory, leases, lock>>
    /\ UNCHANGED <<callerPc, calls, spawned, opened, engine, inbox, process>>

ConnectDone_leak(outcomes, tagged) ==
    /\ process = "running"
    /\ \E t \in BagToSet(tasks), outcome \in outcomes :
          /\ t.pc = "connecting"
          /\ IF outcome = "ok"
             THEN /\ tasks' = Replace(t, [t EXCEPT !.pc = "calling",
                        !.conn = Some(Connection(RpcClient_connect(t.peer, tagged),
                                                 t.peer))])
                  /\ opened' = [opened EXCEPT ![t.peer] = @ + 1]
                  /\ leases' = [leases EXCEPT ![t.peer] = @ + 1]
                  /\ process' = process
                  /\ lock' = FALSE
             ELSE /\ tasks' = Remove(t)
                  /\ process' = SpawnedTaskPanics(process)
                  /\ UNCHANGED <<opened, leases, lock>>
    /\ UNCHANGED <<callerPc, calls, spawned, directory, engine, inbox>>

(* RpcClient::connect(addr).await.unwrap() ends: with a client, and the     *)
(* Connection is built and the guard dropped; or with an error, and unwrap  *)
(* panics, the unwinding dropping the guard.                                *)
ConnectDone(outcomes, tagged) ==
    /\ process = "running"
    /\ \E t \in BagToSet(tasks), outcome \in outcomes :
          /\ t.pc = "connecting"
          /\ IF outcome = "ok"
             THEN /\ tasks' = Replace(t, [t EXCEPT !.pc = "calling",
                        !.conn = Some(Connection(RpcClient_connect(t.peer, tagged),
                                                 t.peer))])
                  /\ opened' = [opened EXCEPT ![t.peer] = @ + 1]
                  /\ leases' = [leases EXCEPT ![t.peer] = @ + 1]
                  /\ process' = process
             ELSE /\ tasks' = Remove(t)
                  /\ process' = SpawnedTaskPanics(process)
                  /\ UNCHANGED <<opened, leases>>
    /\ lock' = FALSE
    /\ UNCHANGED <<callerPc, calls, spawned, directory, engine, inbox>>

CallDone_serial(outcomes) ==
    /\ process = "running"
    /\ \E t \in BagToSet(tasks), outcome \in outcomes :
          /\ t.pc = "calling"
          /\ \A u \in BagToSet(tasks) :
                (u.pc = "calling" /\ u.peer = t.peer)
                    => unwrap(t.conn).conn.id <= unwrap(u.conn).conn.id
          /\ LET served == outcome = "ok" /\ Rpc(t.op, t.req).status = "ok" IN
             /\ engine' = IF outcome = "ok"
                          THEN [engine EXCEPT ![ListenerAt(t.peer)] =
                                    @ \o Rpc(t.op, t.req).deliver]
                          ELSE engine
             /\ process' = IF served THEN process ELSE SpawnedTaskPanics(process)
          /\ directory' = Connection_drop(directory, unwrap(t.conn))
          /\ tasks' = Remove(t)
    /\ UNCHANGED <<callerPc, calls, spawned, lock, opened, leases, inbox>>

(* client.conn.prepare(req).await.unwrap() ends: the peer's handler has run *)
(* and acknowledged, or the call failed and unwrap panics. Either way the   *)
(* task ends and its Connection is dropped.                                 *)
CallDone(outcomes) ==
    /\ process = "running"
    /\ \E t \in BagToSet(tasks), outcome \in outcomes :
          /\ t.pc = "calling"
          /\ LET served == outcome = "ok" /\ Rpc(t.op, t.req).status = "ok" IN
             /\ engine' = IF outcome = "ok"
                          THEN [engine EXCEPT ![ListenerAt(t.peer)] =
                                    @ \o Rpc(t.op, t.req).deliver]
                          ELSE engine
             /\ process' = IF served THEN process ELSE SpawnedTaskPanics(process)
          /\ directory' = Connection_drop(directory, unwrap(t.conn))
          /\ tasks' = Remove(t)
    /\ UNCHANGED <<callerPc, calls, spawned, lock, opened, leases, inbox>>

(* One call on the local service, made by some peer. *)
InboundCall(requests, max) ==
    /\ process = "running"
    /\ Len(inbox) < max
    /\ \E c \in requests :
          LET res == Rpc(c.op, c.req) IN
          /\ engine' = [engine EXCEPT ![Self] = @ \o res.deliver]
          /\ inbox' = Append(inbox, [op |-> c.op, req |-> c.req,
                                     status |-> res.status, entry |-> res.entry,
                                     deliver |-> res.deliver])
          /\ process' = IF res.status = "panic" THEN HandlerPanics(process)
                        ELSE process
    /\ UNCHANGED <<callerPc, calls, spawned, tasks, lock, directory, opened, leases>>

(* One execute call on the local service, made by some client, with the     *)
(* answer the server gives to its query.                                    *)
ExecuteCall(queries, answers, max) ==
    /\ process = "running"
    /\ Len(inbox) < max
    /\ \E query \in queries, answer \in answers :
          LET res == execute(query, answer) IN
          /\ engine' = [engine EXCEPT ![Self] = @ \o res.deliver]
          /\ inbox' = Append(inbox, [op |-> "execute", req |-> query,
                                     answer |-> answer,
                                     status |-> res.status, entry |-> "none",
                                     deliver |-> res.deliver, rows |-> res.rows,
                                     queried |-> res.queried])
    /\ UNCHANGED <<callerPc, calls, spawned, tasks, lock, directory, opened, leases,
                   process>>

-----------------------------------------------------------------------------
(* Wire requests a peer may put on the local service *)

StoreCommands == << [id |-> 1, sql |-> "INSERT"], [id |-> 2, sql |-> "UPDATE"] >>

WireEntries == [item |-> Some([tag |-> "Entries", store_commands |-> StoreCommands])]
WireNoEntries == [item |-> Some([tag |-> "Entries", store_commands |-> <<>>])]
WireSnapshot == [item |-> Some([tag |-> "Snapshot"])]
WireNone == [item |-> Some([tag |-> "None"])]
WireUnset == [item |-> None]

WireStopSign(metadata) == [config_id |-> 7, nodes |-> <<1, 2, 3>>, metadata |-> metadata]

Call(op, req) == [op |-> op, req |-> req]

PrepareCalls ==
    { Call("prepare", [from |-> 1, to |-> 2, n |-> n, ld |-> 5,
                       n_accepted |-> na, la |-> 4]) :
        n \in {Some(Ballot(2, 0, 1)), None},
        na \in {Some(Ballot(1, 0, 1)), None} }

PromiseCalls ==
    { Call("promise", [from |-> 2, to |-> 1, n |-> n,
                       n_accepted |-> Some(Ballot(0, 0, 0)), sync_item |-> si,
                       ld |-> 1, la |-> 2, stop_sign |-> None]) :
        n \in {Some(Ballot(2, 0, 1)), None},
        si \in {None, Some(WireEntries), Some(WireUnset)} }
    \cup
    { Call("promise", [from |-> 2, to |-> 1, n |-> Some(Ballot(2, 0, 1)),
                       n_accepted |-> None, sync_item |-> Some(WireNone),
                       ld |-> 1, la |-> 2, stop_sign |-> Some(WireStopSign(<<9, 8, 7>>))]) }

AcceptSyncCalls ==
    { Call("accept_sync", [from |-> 1, to |-> 2, n |-> Some(Ballot(2, 0, 1)),
                           sync_item |-> si, sync_idx |-> 3, decide_idx |-> 2,
                           stop_sign |-> None]) :
        si \in {None, Some(WireEntries), Some(WireNoEntries), Some(WireSnapshot),
                Some(WireNone), Some(WireUnset)} }
    \cup
    { Call("accept_sync", [from |-> 1, to |-> 2, n |-> None,
                           sync_item |-> Some(WireEntries), sync_idx |-> 3,
                           decide_idx |-> 2,
                           stop_sign |-> Some(WireStopSign(<<256>>))]) }

EntriesCalls ==
    { Call("first_accept", [from |-> 1, to |-> 2, n |-> n, entries |-> StoreCommands]) :
        n \in {Some(Ballot(2, 0, 1)), None} }
    \cup
    { Call("accept_decide", [from |-> 1, to |-> 2, n |-> n, ld |-> 4,
                             entries |-> StoreCommands]) :
        n \in {Some(Ballot(2, 0, 1)), None} }
    \cup
    { Call("proposal_forward", [from |-> 2, to |-> 1, entries |-> e]) :
        e \in {StoreCommands, <<>>} }

BallotCalls ==
    { Call("accepted", [from |-> 2, to |-> 1, n |-> n, la |-> 6]) :
        n \in {Some(Ballot(2, 0, 1)), None} }
    \cup
    { Call("decide", [from |-> 1, to |-> 2, n |-> n, ld |-> 6]) :
        n \in {Some(Ballot(2, 0, 1)), None} }
    \cup
    { Call("accepted_stop_sign", [from |-> 2, to |-> 1, n |-> n]) :
        n \in {Some(Ballot(2, 0, 1)), None} }
    \cup
    { Call("decide_stop_sign", [from |-> 1, to |-> 2, n |-> n]) :
        n \in {Some(Ballot(2, 0, 1)), None} }

CompactionCalls ==
    { Call(op, [from |-> 1, to |-> 2, compaction |-> c]) :
        op \in {"compaction", "forward_compaction"},
        c \in {Some([tag |-> "Trim", trim |-> 5]),
               Some([tag |-> "Snapshot", ss |-> 9]), None} }

StopSignCalls ==
    { Call("accept_stop_sign", [from |-> 1, to |-> 2, n |-> Some(Ballot(2, 0, 1)),
                                ss |-> ss]) :
        ss \in {Some(WireStopSign(<<9, 8, 7>>)), Some(WireStopSign(<<>>)),
                Some(WireStopSign(<<255, 0>>)), Some(WireStopSign(<<256>>)),
                Some(WireStopSign(<<7, 300>>)), None} }
    \cup
    { Call("accept_stop_sign", [from |-> 1, to |-> 2, n |-> None,
                                ss |-> Some(WireStopSign(<<9, 8, 7>>))]) }

(* Engine values a peer sends: stop signs and log sync items. *)
StopSigns ==
    { [config_id |-> 7, nodes |-> <<1, 2, 3>>, metadata |-> md] :
        md \in {Some(<<9, 8, 7>>), Some(<<255, 0>>), Some(<<>>), None} }

SyncItems ==
    { [tag |-> "Entries", entries |-> StoreCommands],
      [tag |-> "Entries", entries |-> <<>>],
      [tag |-> "Snapshot", snapshot |-> "Complete"],
      [tag |-> "Snapshot", snapshot |-> "Delta"],
      [tag |-> "None"] }

(* Well-formed requests as a peer encodes them from those values. *)
EncodedStopSignCalls ==
    { Call("accept_stop_sign", [from |-> 1, to |-> 2, n |-> Some(Ballot(2, 0, 1)),
                                ss |-> Some(proto_from_stopsign(ss))]) :
        ss \in StopSigns }
    \cup
    { Call("promise", [from |-> 2, to |-> 1, n |-> Some(Ballot(2, 0, 1)),
                       n_accepted |-> Some(Ballot(0, 0, 0)), sync_item |-> None,
                       ld |-> 1, la |-> 2,
                       stop_sign |-> Some(proto_from_stopsign(ss))]) :
        ss \in {s \in StopSigns : s.metadata \in {None, Some(<<9, 8, 7>>)}} }
    \cup
    { Call("accept_sync", [from |-> 1, to |-> 2, n |-> Some(Ballot(2, 0, 1)),
                           sync_item |-> Some(WireNone), sync_idx |-> 3,
                           decide_idx |-> 2,
                           stop_sign |-> Some(proto_from_stopsign(ss))]) :
        ss \in {s \in StopSigns : s.metadata \in {None, Some(<<9, 8, 7>>)}} }

EncodedSyncItemCalls ==
    { Call("accept_sync", [from |-> 1, to |-> 2, n |-> Some(Ballot(2, 0, 1)),
                           sync_item |-> Some(proto_from_sync_item(si)),
                           sync_idx |-> 3, decide_idx |-> 2, stop_sign |-> None]) :
        si \in SyncItems }
    \cup
    { Call("promise", [from |-> 2, to |-> 1, n |-> Some(Ballot(2, 0, 1)),
                       n_accepted |-> Some(Ballot(0, 0, 0)),
                       sync_item |-> Some(proto_from_sync_item(si)),
                       ld |-> 1, la |-> 2, stop_sign |-> None]) :
        si \in SyncItems }

HeartbeatCalls ==
    { Call("heartbeat_request", [from |-> 1, to |-> 2, round |-> 3]) }
    \cup
    { Call("heartbeat_reply", [from |-> 2, to |-> 1, round |-> 3, ballot |-> b,
                               majority_connected |-> TRUE]) :
        b \in {Some(Ballot(1, 0, 2)), None} }

InboundRequests ==
    PrepareCalls \cup PromiseCalls \cup AcceptSyncCalls \cup EntriesCalls
        \cup BallotCalls \cup CompactionCalls \cup StopSignCalls \cup HeartbeatCalls
        \cup EncodedStopSignCalls \cup EncodedSyncItemCalls

(* Client queries, and what the server may answer to one. *)
Queries == { [sql |-> "SELECT 1"], [sql |-> "SELECT x"] }

QueryAnswers ==
    { [tag |-> "Ok", rows |-> <<>>],
      [tag |-> "Ok", rows |-> << [values |-> <<"1">>] >>],
      [tag |-> "Ok", rows |-> << [values |-> <<"1", "a">>], [values |-> <<"2", "b">>] >>],
      [tag |-> "Err", error |-> "no such column" ] }

(* The calls peers make while the local transport is sending. *)
InboundSample == { c \in PrepareCalls : ~IsNone(c.req.n_accepted) }

-----------------------------------------------------------------------------
(* The state after RpcTransport::new and RpcService::new *)

Init ==
    /\ callerPc = "idle"
    /\ calls = 0
    /\ spawned = 0
    /\ tasks = EmptyBag
    /\ lock = FALSE
    /\ directory = [a \in {} |-> ConnectionPool_new]
    /\ opened = [a \in Addrs |-> 0]
    /\ leases = [a \in Addrs |-> 0]
    /\ engine = [n \in EngineNodes |-> <<>>]
    /\ inbox = <<>>
    /\ process = "running"

ConnectOutcomes == {"ok", "refused"}
CallOutcomes == {"ok", "error"}

(* The transport with two peers, and peers calling the local service. *)
Next ==
    \/ SendSp(Nodes, SpMessages, MaxSends)
    \/ SendBle(Nodes, BleMessages, MaxSends)
    \/ SendReturns
    \/ LockDirectory
    \/ PoolConnection
    \/ ConnectDone(ConnectOutcomes, TRUE)
    \/ CallDone(CallOutcomes)
    \/ InboundCall(InboundSample, MaxInbound)

Spec == Init /\ [][Next]_vars

(* The outbound transport alone, sending Prepare messages to two peers,     *)
(* under the scheduling the runtime gives: a task that can take the free    *)
(* directory lock, or go on inside its pool, is polled, and a connect or a  *)
(* call in progress ends, with a result or an error.                        *)
FairNext ==
    \/ SendSp(Nodes, PrepareMessages, MaxSends)
    \/ SendReturns
    \/ LockDirectory
    \/ PoolConnection
    \/ ConnectDone(ConnectOutcomes, TRUE)
    \/ CallDone(CallOutcomes)

FairSpec ==
    /\ Init /\ [][FairNext]_vars
    /\ WF_vars(LockDirectory)
    /\ WF_vars(PoolConnection)
    /\ WF_vars(ConnectDone(ConnectOutcomes, TRUE))
    /\ WF_vars(CallDone(CallOutcomes))

(* One pool under load: many sends to one reachable peer. *)
PoolNext ==
    \/ SendSp({1}, {Message(1, 2, Prepare(Ballot(2, 0, 1), 5, Ballot(1, 0, 1), 5))},
              MaxPoolSends)
    \/ SendReturns
    \/ LockDirectory
    \/ PoolConnection
    \/ ConnectDone({"ok"}, FALSE)
    \/ CallDone(CallOutcomes)

PoolSpec == Init /\ [][PoolNext]_vars

(* The inbound service alone, on every kind of request. *)
CodecNext ==
    \/ InboundCall(InboundRequests, MaxCodecCalls)
    \/ ExecuteCall(Queries, QueryAnswers, MaxCodecCalls)

CodecSpec == Init /\ [][CodecNext]_vars

-----------------------------------------------------------------------------
(* Properties *)

TaskSet == BagToSet(tasks)

Min(a, b) == IF a < b THEN a ELSE b

(* Leased connections of the pool of addr that are held by a running call. *)
InFlight(addr) ==
    LET held == {t \in TaskSet : t.pc = "calling" /\ t.peer = addr} IN
    BagCardinality([t \in held |-> CopiesIn(t, tasks)])

(* A call whose request lacks a required sub-message, or whose sync item    *)
(* has no tag set.                                                          *)
MissingRequired(c) ==
    LET r == c.req
        F == DOMAIN c.req
    IN  \/ "n" \in F /\ IsNone(r.n)
        \/ "n_accepted" \in F /\ IsNone(r.n_accepted)
        \/ "ballot" \in F /\ IsNone(r.ballot)
        \/ c.op = "accept_stop_sign" /\ IsNone(r.ss)
        \/ c.op = "accept_sync" /\ IsNone(r.sync_item)
        \/ "compaction" \in F /\ IsNone(r.compaction)
        \/ "sync_item" \in F /\ ~IsNone(r.sync_item) /\ IsNone(unwrap(r.sync_item).item)

(* C1: every send_sp / send_ble call, whatever the variant of its message,  *)
(* spawns exactly one background task, so the tasks spawned so far are as   *)
(* many as the calls made, and each task issues an operation of the service. *)
C1_EverySendSpawnsOneTask ==
    /\ spawned = calls
    /\ \A t \in TaskSet : t.op = "prepare" <=> t.msg.msg.kind = "Prepare"

(* C2: an inbound call whose request lacks a required sub-message ends with *)
(* an explicit invalid-argument error, without a panic, and delivers        *)
(* nothing to the Engine.                                                    *)
C2_MalformedIsInvalidArgument ==
    \A i \in 1..Len(inbox) :
        MissingRequired(inbox[i]) =>
            inbox[i].status = "invalid_argument" /\ inbox[i].deliver = <<>>

(* C3: the directory lock is never held while a connect is in progress, so  *)
(* a task waiting on a connect never keeps another task from the directory. *)
C3_LockNotHeldAcrossConnect ==
    \A t \in TaskSet : t.pc = "connecting" => ~lock

(* C4: each pool holds at most 16 idle handles in every reachable state,    *)
(* and a release into a pool that holds 16 leaves its idle count unchanged. *)
C4_IdleAtMostCapacity ==
    /\ [](\A a \in DOMAIN directory : Len(directory[a]) <= IdleCapacity)
    /\ [][\A t \in TaskSet :
            (t.pc = "calling" /\ tasks' = Remove(t)
                /\ Len(directory[t.peer]) = IdleCapacity)
            => Len(directory'[t.peer]) = IdleCapacity]_vars

C4_Witness ==
    /\ "addr1" \in DOMAIN directory
    /\ Len(directory["addr1"]) = IdleCapacity
    /\ opened["addr1"] > IdleCapacity + InFlight("addr1")

(* C5 as stated: no handle is lost while fewer than 16 are alive, and once  *)
(* no lease of a pool is in flight its idle count is min(k, 16), k being    *)
(* the number of leases taken from the pool.                                *)
C5_IdleIsMinOfLeases ==
    \A a \in DOMAIN directory :
        /\ Len(directory[a]) + InFlight(a) <= opened[a]
        /\ InFlight(a) = 0 => Len(directory[a]) = Min(leases[a], IdleCapacity)

(* C5, amended: every connection opened for a pool is idle in it, held by   *)
(* a running call, or was discarded by a release into a full pool; so once  *)
(* no lease is in flight the idle count is min(k, 16), k being the number   *)
(* of connections opened for the pool (a lease that reuses an idle handle   *)
(* adds none).                                                              *)
C5_IdleIsMinOfOpened ==
    \A a \in DOMAIN directory :
        LET alive == Len(directory[a]) + InFlight(a) IN
        /\ alive <= opened[a]
        /\ alive >= Min(opened[a], IdleCapacity)
        /\ InFlight(a) = 0 => Len(directory[a]) = Min(opened[a], IdleCapacity)

C5_Witness ==
    /\ tasks = EmptyBag
    /\ opened["addr1"] = 20
    /\ Len(directory["addr1"]) = 16
    /\ Len(engine[1]) < 20

(* C6 as stated: a send returns before its task has taken the directory     *)
(* lock or gone further, so at no time have more tasks left their spawn     *)
(* point than sends have returned.                                          *)
C6_ReturnsBeforeTaskStarts ==
    LET waiting == {t \in TaskSet : t.pc = "spawned"}
        notStarted == BagCardinality([t \in waiting |-> CopiesIn(t, tasks)])
        returned == IF callerPc = "in_send" THEN calls - 1 ELSE calls
    IN  spawned - notStarted <= returned

(* C6, amended: a send never waits: whenever the caller is inside a send,   *)
(* its return is enabled, whatever the lock, the connects and the remote    *)
(* calls are doing; the spawned task runs concurrently and may take the     *)
(* lock or connect before the caller has returned.                          *)
C6_SendNeverWaits ==
    callerPc = "in_send" => ENABLED SendReturns

C6_Witness ==
    /\ callerPc = "in_send"
    /\ lock
    /\ \E t \in TaskSet : t.pc = "connecting"

(* C7: a connect failure or remote-call error ends its own task only: the   *)
(* process keeps running, and the step on which a task ends without a       *)
(* delivery changes nothing the caller or another message can observe.      *)
C7_FailureConfined ==
    /\ [](process = "running")
    /\ [][\A t \in TaskSet :
            (tasks' = Remove(t) /\ engine' = engine)
            => /\ callerPc' = callerPc
               /\ calls' = calls
               /\ spawned' = spawned
               /\ inbox' = inbox
               /\ process' = "running"]_vars

C7_Witness ==
    /\ spawned = 2
    /\ tasks = EmptyBag
    /\ \A n \in Nodes : engine[n] = <<>>
    /\ DOMAIN directory = {"addr1", "addr2"}
    /\ opened["addr1"] = 1
    /\ opened["addr2"] = 0
    /\ callerPc = "idle"

(* What the Engine must receive for a well-formed prepare request. *)
ExpectedPrepare(r) ==
    Message(r.from, r.to, Prepare(unwrap(r.n), r.ld, unwrap(r.n_accepted), r.la))

RECURSIVE ExpectedDeliveries(_)
ExpectedDeliveries(calls_made) ==
    IF calls_made = <<>> THEN <<>>
    ELSE (IF MissingRequired(Head(calls_made)) THEN <<>>
          ELSE <<ExpectedPrepare(Head(calls_made).req)>>)
         \o ExpectedDeliveries(Tail(calls_made))

(* C8: a call with a missing required field changes neither the directory   *)
(* nor a pool nor the Engine, and the well-formed calls before and after it *)
(* are delivered and acknowledged as if it had not been made.               *)
C8_DecodeErrorIsolated ==
    /\ [](/\ engine[Self] = ExpectedDeliveries(inbox)
          /\ \A i \in 1..Len(inbox) :
                ~MissingRequired(inbox[i]) => inbox[i].status = "ok")
    /\ [][(Len(inbox') = Len(inbox) + 1 /\ MissingRequired(inbox'[Len(inbox')]))
            => /\ UNCHANGED <<directory, lock, tasks, opened, leases, engine>>
               /\ process' = "running"]_vars

C8_Witness ==
    /\ Len(inbox) = 2
    /\ MissingRequired(inbox[1])
    /\ ~MissingRequired(inbox[2])
    /\ engine[Self] = <<ExpectedPrepare(inbox[2].req)>>
    /\ \E a \in DOMAIN directory : Len(directory[a]) > 0

HasStopSign(c) ==
    IF c.op = "accept_stop_sign" THEN ~IsNone(c.req.ss)
    ELSE "stop_sign" \in DOMAIN c.req /\ ~IsNone(c.req.stop_sign)

WireStopSignOf(c) ==
    IF c.op = "accept_stop_sign" THEN unwrap(c.req.ss) ELSE unwrap(c.req.stop_sign)

OutOfRange(ss) == \E i \in 1..Len(ss.metadata) : ss.metadata[i] > 255

(* C9: a wire StopSign with a metadata element above 255 is rejected: the   *)
(* call that carries it does not end well and delivers nothing.             *)
C9_OutOfRangeMetadataRejected ==
    \A i \in 1..Len(inbox) :
        (HasStopSign(inbox[i]) /\ OutOfRange(WireStopSignOf(inbox[i])))
        => inbox[i].status /= "ok" /\ inbox[i].deliver = <<>>

(* C10: the request a send task carries is decoded by the peer's prepare    *)
(* operation into exactly the message it was encoded from, and every        *)
(* envelope a peer's Engine has received is one of the messages sent.       *)
C10_PrepareRoundTrip ==
    /\ \A t \in TaskSet : prepare(t.req) = recv_sp_msg(t.msg)
    /\ \A n \in Nodes : \A i \in 1..Len(engine[n]) : engine[n][i] \in PrepareMessages

C10_Witness ==
    \E n \in Nodes :
        /\ Len(engine[n]) = 2
        /\ engine[n][1] = Message(2, 1, Prepare(Ballot(0, 0, 0), 0, Ballot(0, 0, 0), 7))
        /\ engine[n][2] = Message(1, 1, Prepare(Ballot(1, 2, 3), 3, Ballot(3, 2, 1), 4))

ExpectedKind(op) ==
    CASE op = "prepare" -> "Prepare"
      [] op = "promise" -> "Promise"
      [] op = "accept_sync" -> "AcceptSync"
      [] op = "first_accept" -> "FirstAccept"
      [] op = "accept_decide" -> "AcceptDecide"
      [] op = "accepted" -> "Accepted"
      [] op = "decide" -> "Decide"
      [] op = "proposal_forward" -> "ProposalForward"
      [] op = "compaction" -> "Compaction"
      [] op = "forward_compaction" -> "ForwardCompaction"
      [] op = "accept_stop_sign" -> "AcceptStopSign"
      [] op = "accepted_stop_sign" -> "AcceptedStopSign"
      [] op = "decide_stop_sign" -> "DecideStopSign"
      [] op = "heartbeat_request" -> "HeartbeatRequest"
      [] op = "heartbeat_reply" -> "HeartbeatReply"

ExpectedEntry(op) ==
    IF op \in {"heartbeat_request", "heartbeat_reply"} THEN "ble" ELSE "sp"

RECURSIVE AllDelivered(_)
AllDelivered(calls_made) ==
    IF calls_made = <<>> THEN <<>>
    ELSE Head(calls_made).deliver \o AllDelivered(Tail(calls_made))

(* C11: a well-formed request of any of the 15 consensus and election       *)
(* operations is acknowledged and hands the Engine exactly one envelope, on *)
(* the entry point of its family, with the request's from and to and the    *)
(* payload variant of the operation; the Engine receives nothing else.      *)
C11_OneDeliveryPerCall ==
    /\ \A i \in 1..Len(inbox) :
          (inbox[i].op /= "execute" /\ ~MissingRequired(inbox[i])) =>
              /\ inbox[i].status = "ok"
              /\ Len(inbox[i].deliver) = 1
              /\ inbox[i].entry = ExpectedEntry(inbox[i].op)
              /\ inbox[i].deliver[1].from = inbox[i].req.from
              /\ inbox[i].deliver[1].to = inbox[i].req.to
              /\ inbox[i].deliver[1].msg.kind = ExpectedKind(inbox[i].op)
    /\ \A i \in 1..Len(inbox) : inbox[i].status = "ok" \/ inbox[i].deliver = <<>>
    /\ engine[Self] = AllDelivered(inbox)

C11_Witness ==
    /\ Len(inbox) = 2
    /\ inbox[1].op = "forward_compaction"
    /\ inbox[1].status = "ok"
    /\ inbox[2].op = "heartbeat_reply"
    /\ inbox[2].entry = "ble"
    /\ Len(engine[Self]) = 2
    /\ engine[Self][1].msg.kind = "ForwardCompaction"

(* C12: the directory never loses or replaces a pool: an address that has   *)
(* an entry keeps it in every step, and the lookup of a send to an address  *)
(* that already has a pool leaves that pool as it is, so all uses of one    *)
(* address, however their tasks interleave, share one pool.                 *)
C12_OnePoolPerAddress ==
    [][\A a \in DOMAIN directory :
          /\ a \in DOMAIN directory'
          /\ (~lock /\ lock') => directory'[a] = directory[a]]_vars

C12_Witness ==
    /\ DOMAIN directory = {"addr1"}
    /\ lock
    /\ \E t \in TaskSet : t.pc = "locked" /\ t.peer = "addr1"
    /\ \E t \in TaskSet : t.pc = "calling" /\ t.peer = "addr1"

(* The handles a task holds, and the handles idle in the pools. *)
HeldBy(t) == IF IsNone(t.conn) THEN {} ELSE {unwrap(t.conn).conn}

IdleHandles ==
    UNION { {directory[a][i] : i \in 1..Len(directory[a])} : a \in DOMAIN directory }

(* C13: a connection handle is held by at most one call in flight, and a    *)
(* handle leased to a call is in no idle queue; no idle queue holds a       *)
(* handle twice.                                                            *)
C13_HandleExclusive ==
    /\ \A t \in TaskSet : HeldBy(t) /= {} => CopiesIn(t, tasks) = 1
    /\ \A t, u \in TaskSet : t /= u => HeldBy(t) \cap HeldBy(u) = {}
    /\ \A t \in TaskSet : HeldBy(t) \cap IdleHandles = {}
    /\ \A a \in DOMAIN directory : \A i, j \in 1..Len(directory[a]) :
          directory[a][i] = directory[a][j] => i = j

C13_Witness ==
    /\ \E t, u \in TaskSet :
          /\ t /= u
          /\ t.pc = "calling" /\ u.pc = "calling" /\ t.peer = u.peer
          /\ unwrap(t.conn).conn.id = 1
          /\ unwrap(u.conn).conn.id = 2
          /\ leases[t.peer] = 2

(* C14: an acquisition never waits for a release. Whatever the number of    *)
(* leases in flight, a task that has looked its pool up can go on at once:  *)
(* it takes the oldest idle handle when the queue has one, and otherwise    *)
(* starts a connect, which on success opens one more connection.            *)
C14_AcquireNeverWaits ==
    \A t \in TaskSet :
        /\ (t.pc = "locked" /\ directory[t.peer] /= <<>>) =>
              ENABLED (/\ PoolConnection
                       /\ directory'[t.peer] = Tail(directory[t.peer])
                       /\ \E u \in BagToSet(tasks') :
                             /\ u.pc = "calling"
                             /\ unwrap(u.conn).conn = Head(directory[t.peer]))
        /\ (t.pc = "locked" /\ directory[t.peer] = <<>>) =>
              ENABLED (/\ PoolConnection
                       /\ \E u \in BagToSet(tasks') : u.pc = "connecting")
        /\ t.pc = "connecting" =>
              ENABLED (/\ ConnectDone({"ok"}, FALSE)
                       /\ opened'[t.peer] = opened[t.peer] + 1)

C14_Witness ==
    /\ InFlight("addr1") = IdleCapacity + 1
    /\ opened["addr1"] = IdleCapacity + 1
    /\ directory["addr1"] = <<>>

(* C15: every call made for a send to node id `to` runs over a handle       *)
(* connected to the address of `to`, fresh or reused, and leased from the   *)
(* pool of that address; every idle handle of the pool of an address is a   *)
(* connection to that address; the envelope's from and to are carried in    *)
(* the request as they are and play no part in the choice of the address.   *)
C15_RoutedByNodeId ==
    /\ \A t \in TaskSet :
          /\ t.peer = node_addr(t.to_id)
          /\ t.req.from = t.msg.from
          /\ t.req.to = t.msg.to
          /\ ~IsNone(t.conn) =>
                /\ unwrap(t.conn).conn.addr = node_addr(t.to_id)
                /\ unwrap(t.conn).pool = node_addr(t.to_id)
    /\ \A a \in DOMAIN directory : \A i \in 1..Len(directory[a]) :
          directory[a][i].addr = a

C15_Witness ==
    /\ \E t \in TaskSet :
          /\ t.pc = "calling"
          /\ t.to_id = 2
          /\ t.msg.to = 1
          /\ unwrap(t.conn).conn.addr = "addr2"
    /\ leases["addr2"] = 2
    /\ opened["addr2"] = 1

DeliveredStopSign(c) ==
    IF c.op = "accept_stop_sign" THEN c.deliver[1].msg.ss
    ELSE unwrap(c.deliver[1].msg.stopsign)

(* C16: the StopSign an inbound message delivers to the Engine equals the   *)
(* StopSign the sender encoded: same config_id, same nodes, the metadata    *)
(* bytes in the same order and number, and absent metadata delivered as     *)
(* absent.                                                                  *)
C16_StopSignRoundTrip ==
    \A i \in 1..Len(inbox) :
        (inbox[i].status = "ok" /\ HasStopSign(inbox[i])) =>
            \A ss \in StopSigns :
                proto_from_stopsign(ss) = WireStopSignOf(inbox[i])
                    => DeliveredStopSign(inbox[i]) = ss

HasSyncItem(c) ==
    "sync_item" \in DOMAIN c.req /\ ~IsNone(c.req.sync_item)

DeliveredSyncItem(c) ==
    IF c.op = "promise" THEN unwrap(c.deliver[1].msg.sync_item)
    ELSE c.deliver[1].msg.sync_item

(* C17: the log sync item an inbound message delivers to the Engine equals  *)
(* the item the sender encoded: Entries with the same commands in the same  *)
(* order, None as None, a Snapshot with the same snapshot marker.           *)
C17_SyncItemRoundTrip ==
    \A i \in 1..Len(inbox) :
        (inbox[i].status = "ok" /\ HasSyncItem(inbox[i])) =>
            \A si \in SyncItems :
                proto_from_sync_item(si) = unwrap(inbox[i].req.sync_item)
                    => DeliveredSyncItem(inbox[i]) = si

(* C18: an execute call puts its statement to the server's query path       *)
(* exactly once; rows the server returns are the rows of the response, with *)
(* the same values in the same order; an error of the server ends the call  *)
(* with a failure status and no rows; nothing is delivered to the           *)
(* consensus or election receive paths.                                     *)
C18_ExecuteIsRequestResponse ==
    \A i \in 1..Len(inbox) :
        inbox[i].op = "execute" =>
            /\ inbox[i].queried = <<inbox[i].req.sql>>
            /\ inbox[i].deliver = <<>>
            /\ inbox[i].entry = "none"
            /\ Len(engine[Self]) =
                  Cardinality({j \in 1..Len(inbox) : inbox[j].deliver /= <<>>})
            /\ IF inbox[i].answer.tag = "Ok"
               THEN /\ inbox[i].status = "ok"
                    /\ Len(inbox[i].rows) = Len(inbox[i].answer.rows)
                    /\ \A j \in 1..Len(inbox[i].rows) :
                          inbox[i].rows[j].values = inbox[i].answer.rows[j].values
               ELSE /\ inbox[i].status = "internal"
                    /\ inbox[i].rows = <<>>

C18_Witness ==
    /\ Len(inbox) = 2
    /\ inbox[1].op = "execute"
    /\ inbox[1].req.sql = "SELECT 1"
    /\ inbox[1].status = "ok"
    /\ inbox[1].rows = << [values |-> <<"1">>] >>
    /\ inbox[2].op = "execute"
    /\ inbox[2].status = "internal"
    /\ engine[Self] = <<>>

LockHolders == {t \in TaskSet : t.pc \in {"locked", "connecting"}}

Waiting == {t \in TaskSet : t.pc = "spawned"}

C20_NoOrderBetweenSends ==
    \A t \in TaskSet :
        t.pc = "calling" =>
            /\ ENABLED (/\ CallDone(CallOutcomes)
                        /\ tasks' = Remove(t)
                        /\ engine' = [engine EXCEPT ![ListenerAt(t.peer)] =
                                         Append(@, t.msg)])
            /\ ENABLED (/\ CallDone(CallOutcomes)
                        /\ tasks' = Remove(t)
                        /\ engine' = engine)

(* Two different messages sent to peer 1, both in flight, none delivered:   *)
(* whichever was sent first, the other may be delivered before it.          *)
C20_Witness ==
    /\ spawned = 2
    /\ engine[1] = <<>>
    /\ \E t, u \in TaskSet :
          /\ t.msg /= u.msg
          /\ t.pc = "calling" /\ t.to_id = 1
          /\ u.pc = "calling" /\ u.to_id = 1

====
